---- MODULE Spec2Model ----
(***************************************************************************)
(* scil_ft_tracking: fibertube tracking.  The script's main() is modelled  *)
(* as a state machine (validation, loading, tracking, saving, config); the *)
(* Tracker, the Propagator, the seed generator and the fibertube data      *)
(* volume it drives are library code and are modelled from the             *)
(* specification's component design (sections 4 and 5).                    *)
(*                                                                         *)
(* Geometry is discretised on an integer grid: points are <<x, y>>,        *)
(* directions are the four unit axis vectors, lengths are in grid units.   *)
(*                                                                         *)
(* The start-up of a script (compilation, parser, parse_args and --help)   *)
(* and the main() of scil_bundle_pairwise_comparison and of                *)
(* scil_tractogram_point_math are modelled beside it.                      *)
(***************************************************************************)
EXTENDS Integers, Sequences, FiniteSets, TLC

\* ---------------------------------------------------------------- bounds
MaxRngSeed == 1

MaxSkip == 1

MaxProcs == 2

MaxInvalid == 1

\* Modulus of the pseudo-random generator standing for numpy's Generator.
RngMod == 16

\* ------------------------------------------------------------ arithmetic
Max2(a, b) == IF a >= b THEN a ELSE b

Min2(a, b) == IF a <= b THEN a ELSE b

Abs(a) == IF a < 0 THEN 0 - a ELSE a

\* Python's int(a / b) for non-negative a and positive b.
IntDiv(a, b) == a \div b

RECURSIVE SumSeq(_)
SumSeq(s) == IF s = <<>> THEN 0 ELSE Head(s) + SumSeq(Tail(s))

\* ------------------------------------------------------- the input file
\* The fibertubes of in_fibertubes: centerlines (ordered points) with their
\* diameters (data_per_streamline['diameters']).  Fiber 1 runs north; fiber 2
\* runs east beside it and then bends north, close enough for a blurred
\* tracking sphere to reach both.
Centerlines == << << <<3, 2>>, <<3, 4>> >>,
                 << <<0, 0>>, <<1, 0>>, <<1, 1>> >> >>

\* A second input file: fiber 1 runs north across the line on which fiber 2,
\* running east, would go on beyond its end.
CrossCenterlines == << << <<3, 0>>, <<3, 2>> >>,
                      << <<0, 1>>, <<1, 1>> >> >>

\* The centerlines held by the file named in_fibertubes.
FileCenterlines(name) ==
    IF name = "cross" THEN CrossCenterlines ELSE Centerlines

\* Diameters, in grid units (radius = diameter / 2).
Diameters == <<2, 2>>

\* in_sft.dimensions: the volume is the box [0, VolMax] x [0, VolMax].
VolMax == 4

\* -------------------------------------------------------------- geometry
Dot(u, v) == u[1] * v[1] + u[2] * v[2]

Neg(d) == <<0 - d[1], 0 - d[2]>>

Sgn(a) == IF a > 0 THEN 1 ELSE IF a < 0 THEN 0 - 1 ELSE 0

\* The value standing for "no direction" (None).
NoDir == <<0, 0>>

\* Unit direction of the axis-aligned segment p -> q.
SegDir(p, q) == <<Sgn(q[1] - p[1]), Sgn(q[2] - p[2])>>

Clamp(a, lo, hi) == IF a < lo THEN lo ELSE IF a > hi THEN hi ELSE a

\* Squared distance from point x to the axis-aligned segment p -> q
\* (closest point on the segment, by clamping each coordinate).
SegDist2(x, p, q) ==
    LET cx == Clamp(x[1], Min2(p[1], q[1]), Max2(p[1], q[1]))
        cy == Clamp(x[2], Min2(p[2], q[2]), Max2(p[2], q[2]))
    IN  (x[1] - cx) * (x[1] - cx) + (x[2] - cy) * (x[2] - cy)

\* All (fiber, segment) pairs of a fiber model, in fiber then segment order.
RECURSIVE SegsOf(_, _, _)
SegsOf(cl, f, i) ==
    IF i >= Len(cl[f]) THEN <<>>
    ELSE << <<f, i>> >> \o SegsOf(cl, f, i + 1)

RECURSIVE AllSegsFrom(_, _)
AllSegsFrom(cl, f) ==
    IF f > Len(cl) THEN <<>> ELSE SegsOf(cl, f, 1) \o AllSegsFrom(cl, f + 1)

\* 4.1 / 4.2: the tube of a segment intersects the tracking sphere when the
\* distance from the sphere's centre to the segment is at most the segment's
\* radius plus the blur radius.  A fiber of radius 0 intersects nothing.
Intersects(m, x, s) ==
    LET p == m.centerlines[s[1]][s[2]]
        q == m.centerlines[s[1]][s[2] + 1]
        r == m.diameters[s[1]] \div 2
        reach == r + m.blur_radius
    IN  r > 0 /\ p # q /\ SegDist2(x, p, q) <= reach * reach

\* 4.2: the weight of a candidate, standing for the volume of the
\* intersection: it grows as the segment gets closer to the centre.
Weight(m, x, s) ==
    LET p == m.centerlines[s[1]][s[2]]
        q == m.centerlines[s[1]][s[2] + 1]
        reach == (m.diameters[s[1]] \div 2) + m.blur_radius
    IN  reach * reach - SegDist2(x, p, q) + 1

\* The segments intersecting the tracking sphere at x, in segment order.
nearest_fiber_segments(m, x) ==
    SelectSeq(AllSegsFrom(m.centerlines, 1), LAMBDA s : Intersects(m, x, s))

\* The direction a segment proposes: its own orientation, turned to the side
\* of the previous direction when there is one.
CandDir(m, s, prev) ==
    LET d == SegDir(m.centerlines[s[1]][s[2]], m.centerlines[s[1]][s[2] + 1])
    IN  IF prev # NoDir /\ Dot(d, prev) < 0 THEN Neg(d) ELSE d

\* Angle between two unit axis directions, in degrees.
Angle(u, v) == IF Dot(u, v) > 0 THEN 0 ELSE IF Dot(u, v) = 0 THEN 90 ELSE 180

\* ------------------------------------------------------------ random source
\* One draw advances the generator state (a full-period congruential map).
RngNext(r) == (5 * r + 3) % RngMod

\* 4.3: sample(candidates, previous_direction, theta_max).  Candidates outside
\* the cone are dropped (no cone on the first step, prev = NoDir); none left
\* gives None; otherwise one is drawn with probability proportional to its
\* weight, from the draw u in 0 .. RngMod - 1.
RECURSIVE PickAt(_, _, _)
PickAt(ws, k, t) ==
    IF k >= Len(ws) THEN k
    ELSE IF t < ws[k] THEN k
    ELSE PickAt(ws, k + 1, t - ws[k])

\* The weights of the candidates, in candidate order.
RECURSIVE WeightsOf(_, _, _)
WeightsOf(m, x, segs) ==
    IF segs = <<>> THEN <<>>
    ELSE <<Weight(m, x, Head(segs))>> \o WeightsOf(m, x, Tail(segs))

\* The element of a singleton set.
Only(S) == CHOOSE v \in S : TRUE

\* (cone: the candidates within the cone; ws: their weights; each is
\* computed once and then used as a value.)
sample(m, x, prev, theta, u) ==
    LET InCone(s) ==
            prev = NoDir \/ Angle(CandDir(m, s, prev), prev) <= theta
        Drawn(cone, ws) ==
            CandDir(m, cone[PickAt(ws, 1, (u * SumSeq(ws)) \div RngMod)], prev)
    IN  Only({ IF cone = <<>> THEN NoDir
               ELSE Only({ Drawn(cone, ws) : ws \in {WeightsOf(m, x, cone)} })
               : cone \in {SelectSeq(nearest_fiber_segments(m, x), InCone)} })

\* ------------------------------------------------------------------ state
VARIABLES
    args,         \* the parsed command line (argparse namespace)
    fs,           \* the files named on the command line: absent, old
                  \* (there before the run, untouched), new (created by the
                  \* run) or rewritten (there before, overwritten by the run)
    pc,           \* main()'s position
    exit,         \* how the process ended: running / ok / usage_error / exception
    console,      \* what main() printed on the console
    in_sft,       \* the loaded input tractogram, <<>> before loading
    dv,           \* the fibertube data volume of each process (1 = main)
    tracker,      \* the Tracker object, <<>> before construction
    chunks,       \* the tracker's chunks of seeds, one per worker
    streamlines,  \* the streamlines returned by tracker.track()
    seeds,        \* the seed records returned by tracker.track()
    out_file,     \* the content saved in out_tractogram by this run
    consumed,     \* per seed index, how many times a tracking run started on it
    fate,         \* per seed index, the final line and whether it was kept
    run,          \* which invocation of the script this is (1 or 2)
    prev,         \* the arguments and results of the previous invocation
    cli,          \* the invocation: script, --help, how far the start-up got
    pw,           \* the state of scil_bundle_pairwise_comparison's main()
    pm            \* the state of scil_tractogram_point_math's main()

vars == <<args, fs, pc, exit, console, in_sft, dv, tracker, chunks,
          streamlines, seeds, out_file, consumed, fate, run, prev,
          cli, pw, pm>>

Files == {"in_fibertubes", "out_tractogram", "out_seeds", "out_config"}

\* Opening a file for writing creates it or replaces its content.
Written(f, n) ==
    [f EXCEPT ![n] = IF @ = "absent" THEN "new"
                     ELSE IF @ = "old" THEN "rewritten" ELSE @]

\* ------------------------------------------------------- main(): validation
\* Faulty variant of outputs: the seeds file is left out of the outputs checked.
outputs_tractogram_only(a) == {"out_tractogram"}

\* outputs = [out_tractogram] (+ <out_tractogram>_seeds<ext> unless
\* --do_not_save_seeds)
outputs(a) ==
    IF ~a.do_not_save_seeds THEN {"out_tractogram", "out_seeds"}
    ELSE {"out_tractogram"}

\* The optional outputs handed to assert_outputs_exist: [args.out_config].
optional_outputs(a) == IF a.out_config THEN {"out_config"} ELSE {}

\* assert_inputs_exist: every required input is a file.
assert_inputs_exist(f, required) == \A n \in required : f[n] # "absent"

\* assert_outputs_exist: no output exists already, unless --overwrite (-f).
assert_outputs_exist(a, f, required, optional) ==
    \A n \in required \union optional : f[n] = "absent" \/ a.overwrite

\* Faulty variant of max_invalid_dirs: one invalid step too many is tolerated.
max_invalid_dirs_off(a) == a.max_invalid_nb_points + 1

\* args.max_invalid_nb_points, handed to the Tracker as max_invalid_dirs.
max_invalid_dirs(a) == a.max_invalid_nb_points

\* Faulty variant of data_per_streamline: --do_not_save_seeds is ignored.
data_per_streamline_always(a, sd) == [seeds |-> sd]

\* out_sft.data_per_streamline: the seeds unless --do_not_save_seeds.
data_per_streamline(a, sd) ==
    IF ~a.do_not_save_seeds THEN [seeds |-> sd] ELSE <<>>

\* Faulty variant of max_nbr_pts: one point too many.
max_nbr_pts_off(a) == IntDiv(a.max_length, a.step_size) + 1

\* max_nbr_pts = int(args.max_length / args.step_size)
max_nbr_pts(a) == IntDiv(a.max_length, a.step_size)

\* min_nbr_pts = max(int(args.min_length / args.step_size), 1)
min_nbr_pts(a) == Max2(IntDiv(a.min_length, a.step_size), 1)

\* Faulty variant of nbr_seeds: only the first seed is asked for.
nbr_seeds_first(a, sft) == 1

\* Faulty variant of nbr_seeds: --nb_fibers is ignored.
nbr_seeds_all(a, sft) == a.nb_seeds_per_fiber * Len(sft.centerlines)

\* nbr_seeds: nb_seeds_per_fiber * nb_fibers, nb_fibers defaulting (None, here
\* 0) to the number of centerlines.
nbr_seeds(a, sft) ==
    IF a.nb_fibers # 0 THEN a.nb_seeds_per_fiber * a.nb_fibers
    ELSE a.nb_seeds_per_fiber * Len(sft.centerlines)

\* Faulty variant of default_rng: the seed is not handed over, and the generator
\* starts from the operating system's entropy.
default_rng_unseeded(seed, os_entropy) == os_entropy % RngMod

\* np.random.default_rng(args.rng_seed): the generator's initial state is a
\* function of the seed alone; the operating system's entropy is not used.
default_rng(seed, os_entropy) == seed % RngMod

\* Faulty variant of propagator_theta: the cone is a quarter turn too wide.
propagator_theta_wide(a) == a.theta + 90

\* theta = radians(args.theta), handed to the FibertubePropagator (the model
\* keeps degrees).
propagator_theta(a) == a.theta

\* Faulty variant of track_forward_only: --forward_only is not handed over.
track_forward_only_off(a) == FALSE

\* track_forward_only=args.forward_only
track_forward_only(a) == a.forward_only

\* Faulty variant of save_seeds: the tracker is told not to record seeds.
save_seeds_never(a) == FALSE

\* The Tracker's save_seeds argument: not args.do_not_save_seeds.
save_seeds(a) == ~a.do_not_save_seeds

\* FibertubeDataVolume(centerlines, diameters, in_sft, blur_radius, rng)
FibertubeDataVolume(sft, a, os_entropy) ==
    [centerlines |-> sft.centerlines,
     diameters   |-> sft.diameters,
     blur_radius |-> a.blur_radius,
     rng         |-> default_rng(a.rng_seed, os_entropy)]

\* Tracker(propagator, fake_mask, seed_generator, nbr_seeds, min_nbr_pts,
\*         max_nbr_pts, args.max_invalid_nb_points, 0, args.nbr_processes,
\*         not args.do_not_save_seeds, 'r+', rng_seed=..., ...), with the
\* propagator's step_size and theta and the seed generator's
\* nb_seeds_per_fiber.
NewTracker(a, sft) ==
    [nbr_seeds          |-> nbr_seeds(a, sft),
     min_nbr_pts        |-> min_nbr_pts(a),
     max_nbr_pts        |-> max_nbr_pts(a),
     max_invalid_dirs   |-> max_invalid_dirs(a),
     nbr_processes      |-> a.nbr_processes,
     save_seeds         |-> save_seeds(a),
     rng_seed           |-> a.rng_seed,
     track_forward_only |-> track_forward_only(a),
     skip               |-> a.skip,
     append_last_point  |-> a.keep_last_out_point,
     step_size          |-> a.step_size,
     theta              |-> propagator_theta(a),
     nb_seeds_per_fiber |-> a.nb_seeds_per_fiber,
     dimensions         |-> sft.dimensions]

\* ------------------------------------------------------------ the tracker
T == tracker[1]

\* 4.4: the seed of index i lies in the first segment of fiber
\* i // nb_seeds_per_fiber; its place in the segment is a function of the run
\* seed, the fiber index and the local index.
seed_position(sft, nspf, rng_seed, i) ==
    LET fiber == ((i \div nspf) % Len(sft.centerlines)) + 1
        local == i % nspf
        p0    == sft.centerlines[fiber][1]
        p1    == sft.centerlines[fiber][2]
        d     == SegDir(p0, p1)
        seglen == Abs(p1[1] - p0[1]) + Abs(p1[2] - p0[2])
        off   == (rng_seed + fiber + local) % (seglen + 1)
    IN  <<p0[1] + off * d[1], p0[2] + off * d[2]>>

\* 5: the number of chunks, one per worker (a single chunk without workers).
nbr_chunks(tr) == IF tr.nbr_processes < 2 THEN 1 ELSE tr.nbr_processes

\* 5: chunk c of n holds nbr_seeds // n consecutive seeds from the skip
\* offset on; the last chunk also takes the remainder.
chunk_first(tr, c) == (c - 1) * (tr.nbr_seeds \div nbr_chunks(tr)) + tr.skip

chunk_size(tr, c) ==
    (tr.nbr_seeds \div nbr_chunks(tr))
      + (IF c = nbr_chunks(tr) THEN tr.nbr_seeds % nbr_chunks(tr) ELSE 0)

\* The process a chunk is tracked in: the main process (1) without workers,
\* otherwise a worker process of its own (c + 1).
ProcOf(tr, c) == IF tr.nbr_processes < 2 THEN 1 ELSE c + 1

\* The fake mask (all ones) covers the volume [0, dimensions]^2.
in_mask(tr, x) ==
    /\ 0 <= x[1] /\ x[1] <= tr.dimensions
    /\ 0 <= x[2] /\ x[2] <= tr.dimensions

\* The state a propagation phase starts in: INIT, or TERMINATED at once when
\* the line already holds max_nbr_pts points.
phase_start(tr, line) ==
    IF Len(line) < tr.max_nbr_pts THEN "INIT" ELSE "TERMINATED"

\* 4.5: one step of the propagator and the tracker's bookkeeping of it
\* (steps: the steps taken in the phase; nfwd: the points of the line when
\* its forward phase ended).
\* d is the direction sampled at the current position (NoDir: none valid).
\* An invalid step goes on in the previous direction; the counter of invalid
\* steps is cumulative over the phase (the policy section 4.5 recommends).
propagate(tr, ch, d) ==
    LET valid == d # NoDir
        nd    == IF valid THEN d ELSE ch.dir
        inv   == IF valid THEN ch.invalid ELSE ch.invalid + 1
        np    == <<ch.pos[1] + tr.step_size * nd[1],
                   ch.pos[2] + tr.step_size * nd[2]>>
    IN  IF inv > tr.max_invalid_dirs \/ nd = NoDir
        THEN [ch EXCEPT !.invalid = inv, !.steps = @ + 1,
                        !.status = "TERMINATED"]
        ELSE IF ~in_mask(tr, np)
        THEN [ch EXCEPT !.invalid = inv, !.steps = @ + 1,
                        !.status = "TERMINATED",
                        !.dir0 = IF ch.dir0 = NoDir THEN nd ELSE ch.dir0,
                        !.line = IF tr.append_last_point
                                 THEN Append(ch.line, np) ELSE ch.line]
        ELSE [ch EXCEPT !.invalid = inv, !.steps = @ + 1,
                        !.line = Append(ch.line, np),
                        !.pos = np,
                        !.dir = nd,
                        !.dir0 = IF ch.dir0 = NoDir THEN nd ELSE ch.dir0,
                        !.status = IF Len(ch.line) + 1 >= tr.max_nbr_pts
                                   THEN "TERMINATED"
                                   ELSE IF valid THEN "STEPPING"
                                   ELSE "INVALID_RUN"]

\* 4.6: length filtering of a finished line.
keep_line(tr, line) ==
    tr.min_nbr_pts <= Len(line) /\ Len(line) <= tr.max_nbr_pts

NewChunk(tr, c) ==
    [first  |-> chunk_first(tr, c),
     size   |-> chunk_size(tr, c),
     s      |-> 0,
     phase  |-> IF chunk_size(tr, c) = 0 THEN "done" ELSE "next",
     status |-> "TERMINATED",
     line   |-> <<>>,
     pos    |-> <<0, 0>>,
     dir    |-> NoDir,
     dir0   |-> NoDir,
     invalid |-> 0,
     steps  |-> 0,
     nfwd   |-> 0,
     lines  |-> <<>>,
     seeds  |-> <<>>]

RECURSIVE ChainLines(_, _)
ChainLines(chs, c) ==
    IF c > Len(chs) THEN <<>> ELSE chs[c].lines \o ChainLines(chs, c + 1)

RECURSIVE ChainSeeds(_, _)
ChainSeeds(chs, c) ==
    IF c > Len(chs) THEN <<>> ELSE chs[c].seeds \o ChainSeeds(chs, c + 1)

\* ---------------------------------------------------------------- actions
\* The largest seed index a run can reach, with room to spare.
SeedIdxs == 0 .. (2 * (MaxSkip + 1) + 4)

\* The operating system's entropy differs from one invocation to the next.
os_entropy == run

\* main(), lines 173-179: both tractogram formats must be supported.
CheckFormats ==
    /\ cli.script = "scil_ft_tracking.py" /\ cli.stage = "main"
    /\ pc = "check_formats"
    /\ IF ~args.in_supported \/ ~args.out_supported
       THEN pc' = "exited" /\ exit' = "usage_error"
       ELSE pc' = "assert_io" /\ exit' = exit
    /\ UNCHANGED <<cli, pw, pm, args, fs, console, in_sft, dv, tracker, chunks, streamlines,
                   seeds, out_file, consumed, fate, run, prev>>

\* main(), lines 181-188: the input exists, no output exists (or -f).
AssertIO ==
    /\ pc = "assert_io"
    /\ IF /\ assert_inputs_exist(fs, {"in_fibertubes"})
          /\ assert_outputs_exist(args, fs, outputs(args),
                                  optional_outputs(args))
       THEN pc' = "load" /\ exit' = exit
       ELSE pc' = "exited" /\ exit' = "usage_error"
    /\ UNCHANGED <<cli, pw, pm, args, fs, console, in_sft, dv, tracker, chunks, streamlines,
                   seeds, out_file, consumed, fate, run, prev>>

\* main(), lines 198-202: load the fibertubes and their diameters.
Load ==
    /\ pc = "load"
    /\ in_sft' = << [centerlines |-> FileCenterlines(args.in_fibertubes),
                     diameters   |-> Diameters,
                     dimensions  |-> VolMax] >>
    /\ pc' = "instantiate"
    /\ UNCHANGED <<cli, pw, pm, args, fs, exit, console, dv, tracker, chunks, streamlines,
                   seeds, out_file, consumed, fate, run, prev>>

\* main(), lines 204-234: data volume, seed generator, propagator, tracker.
Instantiate ==
    /\ pc = "instantiate"
    /\ dv' = << FibertubeDataVolume(in_sft[1], args, os_entropy) >>
    /\ tracker' = << NewTracker(args, in_sft[1]) >>
    /\ pc' = "track"
    /\ UNCHANGED <<cli, pw, pm, args, fs, exit, console, in_sft, chunks, streamlines,
                   seeds, out_file, consumed, fate, run, prev>>

\* tracker.track(), entry: split the seeds in chunks; with workers, every
\* worker process gets its own copy of the tracker and of the data volume.
StartTrack ==
    /\ pc = "track"
    /\ chunks' = [c \in 1..nbr_chunks(T) |-> NewChunk(T, c)]
    /\ dv' = IF T.nbr_processes < 2 THEN dv
             ELSE dv \o [c \in 1..nbr_chunks(T) |-> dv[1]]
    /\ pc' = "tracking"
    /\ UNCHANGED <<cli, pw, pm, args, fs, exit, console, in_sft, tracker, streamlines,
                   seeds, out_file, consumed, fate, run, prev>>

\* A worker takes the next seed of its chunk: the line starts at the seed.
SeedStart(c) ==
    /\ pc = "tracking"
    /\ chunks[c].phase = "next"
    /\ LET ch  == chunks[c]
           idx == ch.first + ch.s
           sd  == seed_position(in_sft[1], T.nb_seeds_per_fiber,
                                T.rng_seed, idx)
       IN  /\ chunks' = [chunks EXCEPT ![c] =
                  [ch EXCEPT !.phase = "forward", !.line = <<sd>>,
                             !.pos = sd, !.dir = NoDir, !.dir0 = NoDir,
                             !.invalid = 0, !.steps = 0, !.nfwd = 0,
                             !.status = phase_start(T, <<sd>>)]]
           /\ consumed' = [consumed EXCEPT ![idx] = @ + 1]
    /\ UNCHANGED <<cli, pw, pm, args, fs, pc, exit, console, in_sft, dv, tracker,
                   streamlines, seeds, out_file, fate, run, prev>>

\* One propagation step of a worker's current line, u being the generator's
\* draw: sample a direction from the process's data volume, advance, count
\* invalid steps.
StepWith(c, u) ==
    /\ pc = "tracking"
    /\ chunks[c].phase \in {"forward", "backward"}
    /\ chunks[c].status # "TERMINATED"
    /\ \E ch \in {chunks[c]}, p \in {ProcOf(T, c)} :
       \E m \in {dv[p]}, x \in {ch.pos}, pd \in {ch.dir} :
       \E d \in {sample(m, x, pd, T.theta, u)} :
           /\ chunks' = [chunks EXCEPT ![c] = propagate(T, ch, d)]
           /\ dv' = [dv EXCEPT ![p].rng = IF d # NoDir THEN u ELSE @]
    /\ UNCHANGED <<cli, pw, pm, args, fs, pc, exit, console, in_sft, tracker, streamlines,
                   seeds, out_file, consumed, fate, run, prev>>

\* The step of a run: the draw is the next value of the process's generator.
Step(c) == StepWith(c, RngNext(dv[ProcOf(T, c)].rng))

\* Draws that select the first, a middle and the last of the candidates.
Draws == {0, RngMod \div 2, RngMod - 1}

\* The step when nothing is assumed of the generator: any draw may come.
StepAny(c) == \E u \in Draws : StepWith(c, u)

\* A terminated phase ends: forward is followed by backward (from the seed,
\* initial direction negated) unless forward_only; then the line is filtered.
EndPhase(c) ==
    /\ pc = "tracking"
    /\ chunks[c].phase \in {"forward", "backward"}
    /\ chunks[c].status = "TERMINATED"
    /\ LET ch == chunks[c]
       IN  chunks' = [chunks EXCEPT ![c] =
               IF ch.phase = "forward" /\ ~T.track_forward_only
               THEN [ch EXCEPT !.phase = "backward",
                               !.pos = ch.line[1],
                               !.dir = Neg(ch.dir0),
                               !.invalid = 0, !.steps = 0,
                               !.nfwd = Len(ch.line),
                               !.status = phase_start(T, ch.line)]
               ELSE [ch EXCEPT !.phase = "filter",
                               !.nfwd = IF ch.phase = "forward"
                                        THEN Len(ch.line) ELSE @]]
    /\ UNCHANGED <<cli, pw, pm, args, fs, pc, exit, console, in_sft, dv, tracker,
                   streamlines, seeds, out_file, consumed, fate, run,
                   prev>>

\* The finished line is kept when its length is within bounds, with its seed
\* when seeds are saved; the worker moves to its next seed.
Finish(c) ==
    /\ pc = "tracking"
    /\ chunks[c].phase = "filter"
    /\ LET ch   == chunks[c]
           idx  == ch.first + ch.s
           kept == keep_line(T, ch.line)
       IN  /\ chunks' = [chunks EXCEPT ![c] =
                  [ch EXCEPT !.s = ch.s + 1,
                             !.phase = IF ch.s + 1 >= ch.size
                                       THEN "done" ELSE "next",
                             !.lines = IF kept THEN Append(@, ch.line) ELSE @,
                             !.seeds = IF kept /\ T.save_seeds
                                       THEN Append(@, ch.line[1]) ELSE @]]
           /\ fate' = [fate EXCEPT ![idx] =
                          << [line |-> ch.line, kept |-> kept,
                              nfwd |-> ch.nfwd,
                              invalid |-> ch.invalid] >>]
    /\ UNCHANGED <<cli, pw, pm, args, fs, pc, exit, console, in_sft, dv, tracker,
                   streamlines, seeds, out_file, consumed, run, prev>>

\* tracker.track(), return: the chunks' results chained in chunk order.
Join ==
    /\ pc = "tracking"
    /\ \A c \in 1..Len(chunks) : chunks[c].phase = "done"
    /\ streamlines' = ChainLines(chunks, 1)
    /\ seeds' = ChainSeeds(chunks, 1)
    /\ pc' = "save"
    /\ UNCHANGED <<cli, pw, pm, args, fs, exit, console, in_sft, dv, tracker, chunks,
                   out_file, consumed, fate, run, prev>>

\* main(), lines 242-245: the output tractogram, with the seeds as
\* data_per_streamline unless --do_not_save_seeds.
Save ==
    /\ pc = "save"
    /\ out_file' = << [streamlines |-> streamlines,
                       data_per_streamline |->
                           data_per_streamline(args, seeds)] >>
    /\ fs' = Written(fs, "out_tractogram")
    /\ pc' = "config"
    /\ UNCHANGED <<cli, pw, pm, args, exit, console, in_sft, dv, tracker, chunks,
                   streamlines, seeds, consumed, fate, run, prev>>

\* main(), lines 247-259: config is assigned only under "if args.out_config";
\* the else branch reads it unassigned and raises UnboundLocalError before
\* anything is printed.
Config ==
    /\ pc = "config"
    /\ IF args.out_config
       THEN /\ fs' = Written(fs, "out_config")
            /\ exit' = "ok"
       ELSE /\ fs' = fs
            /\ exit' = "exception"
    /\ console' = console
    /\ pc' = "exited"
    /\ UNCHANGED <<cli, pw, pm, args, in_sft, dv, tracker, chunks, streamlines, seeds,
                   out_file, consumed, fate, run, prev>>

Next ==
    \/ CheckFormats
    \/ AssertIO
    \/ Load
    \/ Instantiate
    \/ StartTrack
    \/ \E c \in 1..Len(chunks) : SeedStart(c)
    \/ \E c \in 1..Len(chunks) : Step(c)
    \/ \E c \in 1..Len(chunks) : EndPhase(c)
    \/ \E c \in 1..Len(chunks) : Finish(c)
    \/ Join
    \/ Save
    \/ Config

\* ------------------------------------------------------ calling a script
\* The tracking state as one tuple, left alone by the other scripts.
tracking == <<args, fs, pc, exit, console, in_sft, dv, tracker, chunks,
              streamlines, seeds, out_file, consumed, fate, run, prev>>

\* The scripts of the repository, and the former names two of them can still
\* be called by.
Scripts == {"scil_ft_tracking.py", "scil_bundle_pairwise_comparison.py",
            "scil_tractogram_point_math.py",
            "scil_surface_apply_transform.py"}

LegacyScripts == {"scil_apply_transform_to_surface.py",
                  "scil_evaluate_bundles_pairwise_agreement_measures.py"}

\* The script a name runs: a former name runs the script that replaced it.
Target(name) ==
    IF name = "scil_apply_transform_to_surface.py"
    THEN "scil_surface_apply_transform.py"
    ELSE IF name = "scil_evaluate_bundles_pairwise_agreement_measures.py"
    THEN "scil_bundle_pairwise_comparison.py"
    ELSE name

\* Whether the interpreter can compile the script's source.
\* scil_surface_apply_transform.py, line 54: the add_argument call of
\* in_transfo is closed by one parenthesis too many, a SyntaxError.
compiles(script) == script # "scil_surface_apply_transform.py"

\* A process that is about to run the script called by this name.
Called(name, help) ==
    [name |-> name, script |-> Target(name), help |-> help,
     stage |-> "compile", exit |-> "running", parser |-> FALSE,
     usage |-> FALSE]

\* A process that has entered the main() of a script, called without --help.
InMain(script) ==
    [name |-> script, script |-> script, help |-> FALSE,
     stage |-> "main", exit |-> "running", parser |-> TRUE,
     usage |-> FALSE]

\* The interpreter compiles the script; a syntax error ends the process with
\* a traceback before a single statement has run.
Compile ==
    /\ cli.stage = "compile"
    /\ cli' = IF compiles(cli.script)
              THEN [cli EXCEPT !.stage = "build_parser"]
              ELSE [cli EXCEPT !.stage = "exited", !.exit = "exception"]
    /\ UNCHANGED <<tracking, pw, pm>>

\* main(): parser = _build_arg_parser()
BuildParser ==
    /\ cli.stage = "build_parser"
    /\ cli' = [cli EXCEPT !.parser = TRUE, !.stage = "parse_args"]
    /\ UNCHANGED <<tracking, pw, pm>>

\* main(): args = parser.parse_args(); with --help, argparse prints the usage
\* and ends the process successfully.
ParseArgs ==
    /\ cli.stage = "parse_args"
    /\ cli' = IF cli.help
              THEN [cli EXCEPT !.usage = TRUE, !.stage = "exited",
                               !.exit = "ok"]
              ELSE [cli EXCEPT !.stage = "main"]
    /\ UNCHANGED <<tracking, pw, pm>>

\* ------------------------------------ scil_bundle_pairwise_comparison.py
\* The bundles the command line can name.
PwBundles == {"a.trk", "b.trk", "c.trk"}

\* --single_compare when the option is not given (None).
NoBundle == "none"

\* The measures compare_bundle_wrapper returns for a pair of bundles.
MeasureNames == {"dice_voxels", "volume_overlap"}

\* load_data_tmp_saving(args, tmp_dir), lines 95-158.  empty: the bundles
\* without streamlines; tmp: the bundles whose temporary files exist.
\* ret is <<>> for None; warned tells whether the warning was logged.
load_data_tmp_saving(filename, init_only, empty, tmp) ==
    IF filename \in empty
    THEN [ret |-> <<>>, warned |-> init_only, tmp |-> tmp]
    ELSE IF filename \in tmp
    THEN [ret |-> IF init_only THEN <<>> ELSE <<filename>>,
          warned |-> FALSE, tmp |-> tmp]
    ELSE [ret |-> <<filename>>, warned |-> FALSE,
          tmp |-> tmp \cup {filename}]

\* compare_bundle_wrapper(...): every measure of the pair, the value standing
\* for the floats computed from the two bundles' data.
compare_bundle_wrapper(d1, d2) ==
    [m \in MeasureNames |-> <<d1, d2>>]

\* compute_all_measures(args, tmp_dir), lines 161-196: None (<<>>) as soon as
\* one of the two bundles is empty.
compute_all_measures(pair, empty, tmp) ==
    LET l1 == load_data_tmp_saving(pair[1], FALSE, empty, tmp)
        l2 == load_data_tmp_saving(pair[2], FALSE, empty, l1.tmp)
    IN  IF l1.ret = <<>> THEN [ret |-> <<>>, tmp |-> l1.tmp]
        ELSE IF l2.ret = <<>> THEN [ret |-> <<>>, tmp |-> l2.tmp]
        ELSE [ret |-> << compare_bundle_wrapper(l1.ret[1], l2.ret[1]) >>,
              tmp |-> l2.tmp]

\* list.remove(x): the list without the first occurrence of x.
RECURSIVE Remove(_, _)
Remove(s, x) ==
    IF s = <<>> THEN <<>>
    ELSE IF Head(s) = x THEN Tail(s)
    ELSE <<Head(s)>> \o Remove(Tail(s), x)

\* itertools.product(s, [x])
RECURSIVE ProductWith(_, _)
ProductWith(s, x) ==
    IF s = <<>> THEN <<>>
    ELSE << <<Head(s), x>> >> \o ProductWith(Tail(s), x)

\* The pairs of x with every element of s, in order.
RECURSIVE ProductFrom(_, _)
ProductFrom(x, s) ==
    IF s = <<>> THEN <<>>
    ELSE << <<x, Head(s)>> >> \o ProductFrom(x, Tail(s))

\* itertools.combinations(s, r=2): the pairs in lexicographic order of
\* position.
RECURSIVE Combinations2(_)
Combinations2(s) ==
    IF s = <<>> THEN <<>>
    ELSE ProductFrom(Head(s), Tail(s)) \o Combinations2(Tail(s))

\* The measured values of one name, in the order of the pairs, the null
\* results skipped (lines 279-287).
RECURSIVE ValuesOf(_, _)
ValuesOf(all, m) ==
    IF all = <<>> THEN <<>>
    ELSE (IF Head(all) = <<>> THEN <<>> ELSE << Head(all)[1][m] >>)
           \o ValuesOf(Tail(all), m)

\* output_measures_dict, lines 278-287: a list per measure name that occurs
\* in a result.
output_measures_dict(all) ==
    LET names == IF \E k \in 1..Len(all) : all[k] # <<>>
                 THEN MeasureNames ELSE {}
    IN  [m \in names |-> ValuesOf(all, m)]

\* main() before it is entered.
PwIdle ==
    [pc |-> "validate", exit |-> "running",
     in_bundles |-> <<>>, single_compare |-> NoBundle, ratio |-> FALSE,
     nbr_processes |-> 1, keep_tmp |-> FALSE, overwrite |-> FALSE,
     empty |-> {}, out_json |-> "absent",
     pool |-> FALSE, tmp_dir |-> FALSE, tmp |-> {}, warnings |-> {},
     i |-> 1, comb |-> <<>>, all_measures |-> <<>>,
     output |-> <<>>, written |-> <<>>]

Pw(script) == script = "scil_bundle_pairwise_comparison.py"

\* main(), lines 204-212: inputs and outputs, --ratio needs
\* --single_compare.
PwValidate ==
    /\ Pw(cli.script) /\ cli.stage = "main"
    /\ pw.pc = "validate"
    /\ pw' = IF \/ (pw.out_json # "absent" /\ ~pw.overwrite)
                \/ (pw.ratio /\ pw.single_compare = NoBundle)
             THEN [pw EXCEPT !.pc = "exited", !.exit = "usage_error"]
             ELSE [pw EXCEPT !.pc = "setup"]
    /\ UNCHANGED <<tracking, cli, pm>>

\* main(), lines 216-221: the pool of workers, the temporary directory.
PwSetup ==
    /\ pw.pc = "setup"
    /\ pw' = [pw EXCEPT !.pool = pw.nbr_processes > 1,
                        !.tmp_dir = TRUE,
                        !.pc = IF pw.single_compare # NoBundle
                               THEN "plan_single" ELSE "init"]
    /\ UNCHANGED <<tracking, cli, pm>>

\* main(), lines 223-234: every bundle against the single one, which is
\* taken out of the bundles when it is among them.
PwPlanSingle ==
    /\ pw.pc = "plan_single"
    /\ LET rest == IF \E k \in 1..Len(pw.in_bundles) :
                          pw.in_bundles[k] = pw.single_compare
                   THEN Remove(pw.in_bundles, pw.single_compare)
                   ELSE pw.in_bundles
       IN  pw' = [pw EXCEPT !.in_bundles = rest,
                            !.comb = ProductWith(rest, pw.single_compare),
                            !.i = 1,
                            !.pc = "compute"]
    /\ UNCHANGED <<tracking, cli, pm>>

\* main(), lines 244-248: without workers, the temporary files of the
\* bundles are computed one bundle after the other.
PwInitOne ==
    /\ pw.pc = "init"
    /\ pw.nbr_processes = 1
    /\ pw.i <= Len(pw.in_bundles)
    /\ LET f == pw.in_bundles[pw.i]
           l == load_data_tmp_saving(f, TRUE, pw.empty, pw.tmp)
       IN  pw' = [pw EXCEPT !.tmp = l.tmp,
                            !.warnings = IF l.warned THEN @ \cup {f} ELSE @,
                            !.i = @ + 1]
    /\ UNCHANGED <<tracking, cli, pm>>

\* main(), lines 249-254: with workers, pool.map is handed tmp_dir as its
\* chunksize, which raises TypeError in main before a worker is called.
PwInitPool ==
    /\ pw.pc = "init"
    /\ pw.nbr_processes > 1
    /\ pw' = [pw EXCEPT !.pc = "exited", !.exit = "exception"]
    /\ UNCHANGED <<tracking, cli, pm>>

\* main(), lines 256-257: all the pairs of bundles.
PwPlanAll ==
    /\ pw.pc = "init"
    /\ pw.nbr_processes = 1
    /\ pw.i > Len(pw.in_bundles)
    /\ pw' = [pw EXCEPT !.comb = Combinations2(pw.in_bundles),
                        !.i = 1,
                        !.pc = "compute"]
    /\ UNCHANGED <<tracking, cli, pm>>

\* main(), lines 259-266: without workers, the measures of one pair.
PwComputeOne ==
    /\ pw.pc = "compute"
    /\ pw.nbr_processes = 1
    /\ pw.i <= Len(pw.comb)
    /\ LET r == compute_all_measures(pw.comb[pw.i], pw.empty, pw.tmp)
       IN  pw' = [pw EXCEPT !.all_measures = Append(@, r.ret),
                            !.tmp = r.tmp,
                            !.i = @ + 1]
    /\ UNCHANGED <<tracking, cli, pm>>

\* main(), lines 259-266, the loop is over.
PwComputed ==
    /\ pw.pc = "compute"
    /\ pw.nbr_processes = 1
    /\ pw.i > Len(pw.comb)
    /\ pw' = [pw EXCEPT !.pc = "collect"]
    /\ UNCHANGED <<tracking, cli, pm>>

\* main(), lines 267-276: with workers, pool.map calls compute_all_measures
\* with one argument, tmp_dir missing: the TypeError of the first pair is
\* raised in main; without a pair no call is made.
PwComputePool ==
    /\ pw.pc = "compute"
    /\ pw.nbr_processes > 1
    /\ pw' = IF pw.comb = <<>>
             THEN [pw EXCEPT !.all_measures = <<>>, !.pool = FALSE,
                             !.pc = "collect"]
             ELSE [pw EXCEPT !.pc = "exited", !.exit = "exception"]
    /\ UNCHANGED <<tracking, cli, pm>>

\* main(), lines 278-287: the lists of values, null results left out.
PwCollect ==
    /\ pw.pc = "collect"
    /\ pw' = [pw EXCEPT !.output = << output_measures_dict(pw.all_measures) >>,
                        !.pc = "write"]
    /\ UNCHANGED <<tracking, cli, pm>>

\* main(), lines 289-294: out_json is written, the temporary directory is
\* removed unless --keep_tmp.
PwWrite ==
    /\ pw.pc = "write"
    /\ pw' = [pw EXCEPT !.written = pw.output,
                        !.out_json = IF @ = "absent" THEN "new"
                                     ELSE "rewritten",
                        !.tmp_dir = pw.keep_tmp,
                        !.tmp = IF pw.keep_tmp THEN @ ELSE {},
                        !.pc = "exited", !.exit = "ok"]
    /\ UNCHANGED <<tracking, cli, pm>>

NextPw ==
    \/ PwValidate
    \/ PwSetup
    \/ PwPlanSingle
    \/ PwInitOne
    \/ PwInitPool
    \/ PwPlanAll
    \/ PwComputeOne
    \/ PwComputed
    \/ PwComputePool
    \/ PwCollect
    \/ PwWrite

\* ---------------------------------------- scil_tractogram_point_math.py
\* The names of all the occurrences of an option declared with nargs='+'
\* and action='append', which argparse stores as one list per occurrence.
RECURSIVE Flat(_)
Flat(groups) ==
    IF groups = <<>> THEN <<>> ELSE Head(groups) \o Flat(Tail(groups))

\* set(names)
NameSet(s) == {s[k] : k \in 1..Len(s)}

\* zip(a, b): the pairs up to the shorter of the two.
Zip(a, b) ==
    [k \in 1..Min2(Len(a), Len(b)) |-> <<a[k], b[k]>>]

\* The operation performed for one name, lines 149-173: its kind and where
\* the result goes.
operation_of(operation, dpp_or_dps, in_dpp_name, out_name) ==
    [in   |-> in_dpp_name,
     out  |-> out_name,
     op   |-> operation,
     into |-> IF operation = "correlation" THEN "dps"
              ELSE IF dpp_or_dps = "dpp" THEN "dpp" ELSE "dps"]

\* main() before it is entered.
PmIdle ==
    [pc |-> "assert_io", exit |-> "running",
     operation |-> "mean", dpp_or_dps |-> "dpp",
     in_dpp_name |-> << <<"a">> >>, out_name |-> << <<"x">> >>,
     overwrite |-> FALSE, out_tractogram |-> "absent",
     nb_streamlines |-> 0, data_per_point |-> <<>>,
     loaded |-> FALSE, i |-> 1, ops |-> <<>>, saved |-> <<>>]

Pm(script) == script = "scil_tractogram_point_math.py"

\* main(), lines 105-106: the input exists, the output does not (or -f).
PmAssertIO ==
    /\ Pm(cli.script) /\ cli.stage = "main"
    /\ pm.pc = "assert_io"
    /\ pm' = IF pm.out_tractogram # "absent" /\ ~pm.overwrite
             THEN [pm EXCEPT !.pc = "exited", !.exit = "usage_error"]
             ELSE [pm EXCEPT !.pc = "load"]
    /\ UNCHANGED <<tracking, cli, pw>>

\* main(), lines 108-114: load; an empty tractogram ends the run.
PmLoad ==
    /\ pm.pc = "load"
    /\ pm' = IF pm.nb_streamlines = 0
             THEN [pm EXCEPT !.loaded = TRUE, !.pc = "exited", !.exit = "ok"]
             ELSE [pm EXCEPT !.loaded = TRUE, !.pc = "check_names"]
    /\ UNCHANGED <<tracking, cli, pw>>

\* main(), lines 116-122: as many out names as in names, no out name twice;
\* of each option the names of the first occurrence are looked at.
PmCheckNames ==
    /\ pm.pc = "check_names"
    /\ pm' = IF \/ Len(pm.in_dpp_name[1]) # Len(pm.out_name[1])
                \/ Len(pm.out_name[1]) # Cardinality(NameSet(pm.out_name[1]))
             THEN [pm EXCEPT !.pc = "exited", !.exit = "usage_error"]
             ELSE [pm EXCEPT !.pc = "check_input", !.i = 1]
    /\ UNCHANGED <<tracking, cli, pw>>

\* main(), lines 125-140: one turn of the loop of input name checks.
PmCheckInput ==
    /\ pm.pc = "check_input"
    /\ pm.i <= Len(pm.in_dpp_name[1])
    /\ LET name == pm.in_dpp_name[1][pm.i]
       IN  pm' = IF name \notin DOMAIN pm.data_per_point
                 THEN [pm EXCEPT !.pc = "exited", !.exit = "ok"]
                 ELSE IF /\ pm.operation = "correlation"
                         /\ Len(pm.data_per_point[name]) = 1
                 THEN [pm EXCEPT !.pc = "exited", !.exit = "ok"]
                 ELSE IF /\ pm.operation = "correlation"
                         /\ pm.dpp_or_dps = "dpp"
                 THEN [pm EXCEPT !.pc = "exited", !.exit = "ok"]
                 ELSE [pm EXCEPT !.i = @ + 1]
    /\ UNCHANGED <<tracking, cli, pw>>

\* main(), lines 125-144: the checks are over, the operations start.
PmChecked ==
    /\ pm.pc = "check_input"
    /\ pm.i > Len(pm.in_dpp_name[1])
    /\ pm' = [pm EXCEPT !.pc = "operate", !.i = 1]
    /\ UNCHANGED <<tracking, cli, pw>>

\* main(), lines 144-173: the operation on one name of the first
\* occurrence of --in_dpp_name, saved under the matching out name.
PmOperate ==
    /\ pm.pc = "operate"
    /\ pm.i <= Len(Zip(pm.in_dpp_name[1], pm.out_name[1]))
    /\ LET z == Zip(pm.in_dpp_name[1], pm.out_name[1])[pm.i]
       IN  pm' = [pm EXCEPT !.ops = Append(@, operation_of(pm.operation,
                                               pm.dpp_or_dps, z[1], z[2])),
                            !.i = @ + 1]
    /\ UNCHANGED <<tracking, cli, pw>>

\* main(), lines 175-185: the new tractogram with the results is saved.
PmSave ==
    /\ pm.pc = "operate"
    /\ pm.i > Len(Zip(pm.in_dpp_name[1], pm.out_name[1]))
    /\ pm' = [pm EXCEPT !.saved = << pm.ops >>,
                        !.out_tractogram = IF @ = "absent" THEN "new"
                                           ELSE "rewritten",
                        !.pc = "exited", !.exit = "ok"]
    /\ UNCHANGED <<tracking, cli, pw>>

NextPm ==
    \/ PmAssertIO
    \/ PmLoad
    \/ PmCheckNames
    \/ PmCheckInput
    \/ PmChecked
    \/ PmOperate
    \/ PmSave

\* ----------------------------------------------------------- initial states
TrackStart(a, f) ==
    /\ args = a
    /\ fs = f
    /\ pc = "check_formats"
    /\ exit = "running"
    /\ console = <<>>
    /\ in_sft = <<>>
    /\ dv = <<>>
    /\ tracker = <<>>
    /\ chunks = <<>>
    /\ streamlines = <<>>
    /\ seeds = <<>>
    /\ out_file = <<>>
    /\ consumed = [i \in SeedIdxs |-> 0]
    /\ fate = [i \in SeedIdxs |-> <<>>]
    /\ run = 1
    /\ prev = <<>>

\* scil_ft_tracking.py has been called without --help and main() has parsed
\* its command line.
StartOf(a, f) ==
    /\ TrackStart(a, f)
    /\ cli = InMain("scil_ft_tracking.py")
    /\ pw = PwIdle
    /\ pm = PmIdle

\* A valid command line over an existing input and no existing output.
CleanFs == [n \in Files |-> IF n = "in_fibertubes" THEN "old" ELSE "absent"]

ArgsTrack ==
    [in_fibertubes: {"bend"},
     in_supported: {TRUE}, out_supported: {TRUE}, overwrite: {FALSE},
     do_not_save_seeds: {FALSE}, out_config: {TRUE},
     step_size: {1, 2}, blur_radius: {0, 1},
     min_length: {1, 3}, max_length: {4, 6},
     theta: {60, 90}, max_invalid_nb_points: 0..MaxInvalid,
     forward_only: BOOLEAN, keep_last_out_point: BOOLEAN,
     nb_seeds_per_fiber: {1}, nb_fibers: {0},
     rng_seed: 0..MaxRngSeed, skip: {0}, nbr_processes: 1..MaxProcs]

Init ==
    \E a \in ArgsTrack : StartOf(a, CleanFs)

Spec == Init /\ [][Next]_vars

\* Runs that differ in how the seeds are counted, skipped and distributed.
ArgsSeeds ==
    [in_fibertubes: {"bend"},
     in_supported: {TRUE}, out_supported: {TRUE}, overwrite: {FALSE},
     do_not_save_seeds: {FALSE}, out_config: {TRUE},
     step_size: {2}, blur_radius: {0},
     min_length: {1}, max_length: {6},
     theta: {60}, max_invalid_nb_points: {0},
     forward_only: BOOLEAN, keep_last_out_point: {FALSE},
     nb_seeds_per_fiber: {1, 2}, nb_fibers: {0, 1, 2, 3},
     rng_seed: {0}, skip: 0..MaxSkip, nbr_processes: 1..MaxProcs]

InitSeeds == \E a \in ArgsSeeds : StartOf(a, CleanFs)

SpecSeeds == InitSeeds /\ [][Next]_vars

\* Command lines and file systems that differ in what validation looks at
\* and in what is saved.
ArgsCli ==
    [in_fibertubes: {"bend"},
     in_supported: BOOLEAN, out_supported: BOOLEAN, overwrite: BOOLEAN,
     do_not_save_seeds: BOOLEAN, out_config: BOOLEAN,
     step_size: {2}, blur_radius: {0},
     min_length: {1}, max_length: {6},
     theta: {60}, max_invalid_nb_points: {0},
     forward_only: {FALSE}, keep_last_out_point: {FALSE},
     nb_seeds_per_fiber: {1}, nb_fibers: {0},
     rng_seed: {0}, skip: {0}, nbr_processes: {1}]

InitCli ==
    \E a \in ArgsCli :
        \E f \in [Files -> {"absent", "old"}] : StartOf(a, f)

SpecCli == InitCli /\ [][Next]_vars

\* The script is called a second time on the same input with the same
\* command line, but for the number of processes, the skip offset and the
\* number of fibers, which may change; the files of the first call are
\* there, and its arguments and results are remembered for comparison.
Rerun ==
    /\ run = 1
    /\ pc = "exited"
    /\ out_file # <<>>
    /\ \E np \in 1..MaxProcs, sk \in 0..MaxSkip, nf \in {0, 1, 2} :
           args' = [args EXCEPT !.nbr_processes = np, !.skip = sk,
                                !.nb_fibers = nf]
    /\ prev' = << [args |-> args, out_file |-> out_file[1], fate |-> fate] >>
    /\ run' = 2
    /\ fs' = [n \in Files |-> IF fs[n] = "absent" THEN "absent" ELSE "old"]
    /\ pc' = "check_formats"
    /\ exit' = "running"
    /\ console' = <<>>
    /\ in_sft' = <<>>
    /\ dv' = <<>>
    /\ tracker' = <<>>
    /\ chunks' = <<>>
    /\ streamlines' = <<>>
    /\ seeds' = <<>>
    /\ out_file' = <<>>
    /\ consumed' = [i \in SeedIdxs |-> 0]
    /\ fate' = [i \in SeedIdxs |-> <<>>]
    /\ UNCHANGED <<cli, pw, pm>>

NextPair == Next \/ Rerun

ArgsPair ==
    [in_fibertubes: {"bend"},
     in_supported: {TRUE}, out_supported: {TRUE}, overwrite: {TRUE},
     do_not_save_seeds: {FALSE}, out_config: BOOLEAN,
     step_size: {1}, blur_radius: {1},
     min_length: {1}, max_length: {4},
     theta: {60, 90}, max_invalid_nb_points: {0},
     forward_only: BOOLEAN, keep_last_out_point: {FALSE},
     nb_seeds_per_fiber: {1}, nb_fibers: {0, 1, 2},
     rng_seed: 0..MaxRngSeed, skip: 0..MaxSkip, nbr_processes: 1..MaxProcs]

InitPair == \E a \in ArgsPair : StartOf(a, CleanFs)

SpecPair == InitPair /\ [][NextPair]_vars

\* Runs in which the length filter may leave nothing: min_length = 6 asks for
\* three points, which no line of this volume reaches with step_size = 2.
ArgsEmpty ==
    [in_fibertubes: {"bend", "cross"},
     in_supported: {TRUE}, out_supported: {TRUE}, overwrite: {FALSE},
     do_not_save_seeds: BOOLEAN, out_config: BOOLEAN,
     step_size: {2}, blur_radius: {0},
     min_length: {1, 6}, max_length: {6},
     theta: {60}, max_invalid_nb_points: {0},
     forward_only: BOOLEAN, keep_last_out_point: {FALSE},
     nb_seeds_per_fiber: {1}, nb_fibers: {0},
     rng_seed: 0..MaxRngSeed, skip: {0}, nbr_processes: 1..MaxProcs]

InitEmpty == \E a \in ArgsEmpty : StartOf(a, CleanFs)

SpecEmpty == InitEmpty /\ [][Next]_vars

\* Tracking under every sequence of direction-sampling outcomes.  The
\* scheduler runs every worker process, and main() runs to its end: some
\* enabled step is always taken eventually.
NextAny ==
    \/ CheckFormats
    \/ AssertIO
    \/ Load
    \/ Instantiate
    \/ StartTrack
    \/ \E c \in 1..Len(chunks) : SeedStart(c)
    \/ \E c \in 1..Len(chunks) : StepAny(c)
    \/ \E c \in 1..Len(chunks) : EndPhase(c)
    \/ \E c \in 1..Len(chunks) : Finish(c)
    \/ Join
    \/ Save
    \/ Config

ArgsLive ==
    [in_fibertubes: {"bend"},
     in_supported: {TRUE}, out_supported: {TRUE}, overwrite: {FALSE},
     do_not_save_seeds: {FALSE}, out_config: {TRUE},
     step_size: {1}, blur_radius: {0, 1},
     min_length: {1}, max_length: {4},
     theta: {60}, max_invalid_nb_points: 0..MaxInvalid,
     forward_only: BOOLEAN, keep_last_out_point: {FALSE},
     nb_seeds_per_fiber: {1}, nb_fibers: {0},
     rng_seed: {0}, skip: {0}, nbr_processes: {1, 2}]

InitLive == \E a \in ArgsLive : StartOf(a, CleanFs)

SpecLive == InitLive /\ [][NextAny]_vars /\ WF_vars(NextAny)

\* Runs over both input files, in a single process: with the second file a
\* line running east meets a fiber that crosses it at a right angle.
ArgsCone ==
    [in_fibertubes: {"bend", "cross"},
     in_supported: {TRUE}, out_supported: {TRUE}, overwrite: {FALSE},
     do_not_save_seeds: {FALSE}, out_config: {TRUE},
     step_size: {1}, blur_radius: {0, 1},
     min_length: {1}, max_length: {4, 6},
     theta: {60, 90}, max_invalid_nb_points: 0..MaxInvalid,
     forward_only: BOOLEAN, keep_last_out_point: BOOLEAN,
     nb_seeds_per_fiber: {1}, nb_fibers: {0},
     rng_seed: 0..MaxRngSeed, skip: {0}, nbr_processes: {1}]

InitCone == \E a \in ArgsCone : StartOf(a, CleanFs)

SpecCone == InitCone /\ [][Next]_vars

\* Runs that differ in the number of seeds asked for, with a minimal length
\* that some of the lines do not reach.
ArgsCount ==
    [in_fibertubes: {"bend"},
     in_supported: {TRUE}, out_supported: {TRUE}, overwrite: {FALSE},
     do_not_save_seeds: {FALSE}, out_config: {TRUE},
     step_size: {2}, blur_radius: {0, 1},
     min_length: {1, 4}, max_length: {6},
     theta: {60}, max_invalid_nb_points: {0},
     forward_only: BOOLEAN, keep_last_out_point: {FALSE},
     nb_seeds_per_fiber: {1, 2}, nb_fibers: {0, 1, 2, 3},
     rng_seed: {0, 1}, skip: {0}, nbr_processes: 1..MaxProcs]

InitCount == \E a \in ArgsCount : StartOf(a, CleanFs)

SpecCount == InitCount /\ [][Next]_vars

\* Any script of the repository is called, by its name or a former name,
\* with or without --help, on a few command lines and inputs of its own.
ArgsCall ==
    [in_fibertubes: {"bend"},
     in_supported: {TRUE}, out_supported: {TRUE}, overwrite: {FALSE},
     do_not_save_seeds: {FALSE}, out_config: {TRUE},
     step_size: {1}, blur_radius: {0},
     min_length: {1}, max_length: {4},
     theta: {60}, max_invalid_nb_points: {0},
     forward_only: BOOLEAN, keep_last_out_point: {FALSE},
     nb_seeds_per_fiber: {1}, nb_fibers: {0},
     rng_seed: {0}, skip: {0}, nbr_processes: {1, 2}]

\* Whether out_json (out_tractogram) is there before the run, and -f.
OutputCases == { <<"absent", FALSE>>, <<"old", FALSE>>, <<"old", TRUE>> }

PwInputs ==
    { [PwIdle EXCEPT !.in_bundles = b, !.single_compare = s, !.ratio = r,
                     !.nbr_processes = n, !.keep_tmp = k, !.empty = e,
                     !.out_json = o[1], !.overwrite = o[2]] :
        b \in { <<"a.trk">>, <<"a.trk", "b.trk">>,
                <<"a.trk", "b.trk", "c.trk">> },
        s \in {NoBundle, "a.trk", "c.trk"},
        r \in BOOLEAN, n \in {1, 2}, k \in BOOLEAN,
        e \in SUBSET PwBundles, o \in OutputCases }

\* The data_per_point of the input: per name the shape of a streamline's
\* data, (points,) or (points, values); "b" may be missing.
PmData ==
    { [n \in {"a"} |-> sa] : sa \in { <<3>>, <<3, 2>> } }
      \cup { [n \in {"a", "b"} |-> IF n = "a" THEN sa ELSE <<3, 2>>] :
                sa \in { <<3>>, <<3, 2>> } }

PmInputs ==
    { [PmIdle EXCEPT !.operation = op, !.dpp_or_dps = md,
                     !.in_dpp_name = i, !.out_name = u,
                     !.nb_streamlines = ns, !.data_per_point = d,
                     !.out_tractogram = o[1], !.overwrite = o[2]] :
        op \in {"mean", "correlation"}, md \in {"dpp", "dps"},
        i \in { << <<"a">> >>, << <<"a", "b">> >>, << <<"a">>, <<"b">> >> },
        u \in { << <<"x">> >>, << <<"x", "y">> >>, << <<"x", "x">> >>,
                << <<"x">>, <<"y">> >> },
        ns \in {0, 2}, d \in PmData, o \in OutputCases }

InitScripts ==
    \E name \in Scripts \cup LegacyScripts, help \in BOOLEAN :
        /\ cli = Called(name, help)
        /\ \E a \in ArgsCall :
               /\ TrackStart(a, CleanFs)
               /\ Target(name) # "scil_ft_tracking.py"
                      => a.forward_only /\ a.nbr_processes = 1
        /\ IF Pw(Target(name)) THEN pw \in PwInputs ELSE pw = PwIdle
        /\ IF Pm(Target(name)) THEN pm \in PmInputs ELSE pm = PmIdle

NextScripts ==
    \/ Compile
    \/ BuildParser
    \/ ParseArgs
    \/ Next
    \/ NextPw
    \/ NextPm

SpecScripts == InitScripts /\ [][NextScripts]_vars

\* scil_bundle_pairwise_comparison is called a second time after a run
\* without workers that ended normally: the same bundles (as main() left
\* args.in_bundles, the single bundle taken out) and options, now with
\* --processes 2 and -f over the out_json of the first call; the temporary
\* directory is a new one.  The first call's state is remembered.
PwRerun ==
    /\ Pw(cli.script)
    /\ run = 1
    /\ pw.pc = "exited" /\ pw.exit = "ok"
    /\ prev' = << [pw |-> pw] >>
    /\ run' = 2
    /\ pw' = [pw EXCEPT !.pc = "validate", !.exit = "running",
                        !.nbr_processes = 2,
                        !.overwrite = TRUE, !.out_json = "old",
                        !.pool = FALSE, !.tmp_dir = FALSE, !.tmp = {},
                        !.warnings = {}, !.i = 1, !.comb = <<>>,
                        !.all_measures = <<>>, !.output = <<>>,
                        !.written = <<>>]
    /\ UNCHANGED <<args, fs, pc, exit, console, in_sft, dv, tracker, chunks,
                   streamlines, seeds, out_file, consumed, fate, cli, pm>>

NextPools == NextPw \/ PwRerun

InitPools ==
    /\ cli = InMain("scil_bundle_pairwise_comparison.py")
    /\ \E a \in ArgsCall :
           a.forward_only /\ a.nbr_processes = 1 /\ TrackStart(a, CleanFs)
    /\ \E i \in PwInputs : i.nbr_processes = 1 /\ pw = i
    /\ pm = PmIdle

SpecPools == InitPools /\ [][NextPools]_vars

\* ------------------------------------------------------------------ claims
Stepping(ch) == ch.phase \in {"forward", "backward"}

\* Whether main() got past validation and tracking has returned.
Tracked == pc \in {"save", "config", "exited"} /\ exit # "usage_error"

KeptIdxs == {i \in SeedIdxs : fate[i] # <<>> /\ fate[i][1].kept}

\* C1: every streamline that reaches the output (a chunk's results, the
\* tracker's return value, the saved tractogram) has a point count n with
\* max(int(min_length / step_size), 1) <= n <= int(max_length / step_size);
\* a finished line outside this range is discarded, and the output holds
\* exactly the kept lines.
C1_LengthBound ==
    LET lo == IF args.min_length \div args.step_size >= 1
              THEN args.min_length \div args.step_size ELSE 1
        hi == args.max_length \div args.step_size
        InRange(l) == lo <= Len(l) /\ Len(l) <= hi
    IN  /\ \A k \in 1..Len(streamlines) : InRange(streamlines[k])
        /\ \A c \in 1..Len(chunks) :
               \A k \in 1..Len(chunks[c].lines) : InRange(chunks[c].lines[k])
        /\ out_file # <<>> =>
               \A k \in 1..Len(out_file[1].streamlines) :
                   InRange(out_file[1].streamlines[k])
        /\ \A i \in SeedIdxs :
               fate[i] # <<>> => (fate[i][1].kept <=> InRange(fate[i][1].line))
        /\ Tracked => Len(streamlines) = Cardinality(KeptIdxs)

\* C1 witness: a finished run that kept a line of more than one point and
\* discarded a line that was too short.
C1_Witness ==
    /\ pc = "exited" /\ exit = "ok"
    /\ \E i \in KeptIdxs : Len(fate[i][1].line) > 1
    /\ \E i \in SeedIdxs :
           /\ fate[i] # <<>> /\ ~fate[i][1].kept
           /\ Len(fate[i][1].line) < args.min_length \div args.step_size
    /\ Len(out_file[1].streamlines) >= 1

\* C2: while a line is still stepping, its invalid-step counter is at most
\* max_invalid_nb_points; a counter above it means TERMINATED; and with
\* max_invalid_nb_points = 0 the first invalid step terminates the phase
\* without adding a point.
C2_InvalidBound ==
    [][\A c \in 1..Len(chunks') :
          LET b == chunks'[c]
          IN  /\ (Stepping(b) /\ b.status # "TERMINATED")
                    => b.invalid <= args.max_invalid_nb_points
              /\ (Stepping(b) /\ b.invalid > args.max_invalid_nb_points)
                    => b.status = "TERMINATED"
              /\ (/\ c <= Len(chunks)
                  /\ args.max_invalid_nb_points = 0
                  /\ Stepping(chunks[c]) /\ chunks[c].phase = b.phase
                  /\ b.invalid > chunks[c].invalid)
                    => (b.status = "TERMINATED" /\ b.line = chunks[c].line)
      ]_vars

\* C2 witness: with max_invalid_nb_points = 0, a phase that was stepping has
\* terminated on its first invalid step, after at least one valid step.
C2_Witness ==
    \E c \in 1..Len(chunks) :
        /\ args.max_invalid_nb_points = 0
        /\ Stepping(chunks[c])
        /\ chunks[c].invalid = 1
        /\ chunks[c].status = "TERMINATED"
        /\ Len(chunks[c].line) > 1

\* C6: the workers' chunks are pairwise disjoint and together cover the
\* seed list after the skip offset: no seed is tracked twice, none outside
\* the list is tracked, and when tracking has returned every seed of the
\* list has been tracked exactly once.
C6_SeedsOnce ==
    LET n == args.nb_seeds_per_fiber
               * (IF args.nb_fibers # 0 THEN args.nb_fibers
                  ELSE Len(Centerlines))
        InList(i) == args.skip <= i /\ i < args.skip + n
        Range(c) == {i \in SeedIdxs :
                        /\ chunks[c].first <= i
                        /\ i < chunks[c].first + chunks[c].size}
    IN  /\ \A i \in SeedIdxs :
               consumed[i] <= 1 /\ (consumed[i] = 1 => InList(i))
        /\ \A c1, c2 \in 1..Len(chunks) :
               c1 # c2 => Range(c1) \cap Range(c2) = {}
        /\ chunks # <<>> =>
               UNION {Range(c) : c \in 1..Len(chunks)}
                   = {i \in SeedIdxs : InList(i)}
        /\ Tracked =>
               \A i \in SeedIdxs :
                   InList(i) => (consumed[i] = 1 /\ fate[i] # <<>>)

\* C6 witness: a run with a skip offset whose seeds were split over two or
\* more workers, unevenly, and have all been tracked.
C6_Witness ==
    /\ Tracked
    /\ args.skip > 0
    /\ Len(chunks) >= 2
    /\ chunks[1].size >= 1
    /\ chunks[Len(chunks)].size > chunks[1].size
    /\ \A c \in 1..Len(chunks) : chunks[c].s = chunks[c].size

\* C7: once the fibertube data volume is built, no tracking step changes any
\* part of it, in any process.
C7_FiberModelFrozen ==
    [][(pc = "tracking" /\ pc' = "tracking") => dv' = dv]_vars

\* Whether file n was there when the run started.
Existed(f, n) == f[n] \in {"old", "rewritten"}

\* The configuration errors of a command line: an unsupported format, a
\* missing input, an output (tractogram, seeds file, config file) that is
\* there already without --overwrite.
ConfigError ==
    \/ ~args.in_supported
    \/ ~args.out_supported
    \/ fs["in_fibertubes"] = "absent"
    \/ /\ ~args.overwrite
       /\ \/ Existed(fs, "out_tractogram")
          \/ ~args.do_not_save_seeds /\ Existed(fs, "out_seeds")
          \/ args.out_config /\ Existed(fs, "out_config")

WrittenFiles == {n \in Files : fs[n] \in {"new", "rewritten"}}

\* C8: with a configuration error the run never gets past validation: the
\* fibertubes are not loaded, nothing is tracked, no file is created or
\* modified, and the process ends with a usage error.
C8_ErrorsBeforeWork ==
    ConfigError =>
        /\ pc \in {"check_formats", "assert_io", "exited"}
        /\ pc = "exited" => exit = "usage_error"
        /\ in_sft = <<>> /\ dv = <<>> /\ tracker = <<>> /\ chunks = <<>>
        /\ \A i \in SeedIdxs : consumed[i] = 0
        /\ WrittenFiles = {}
        /\ out_file = <<>>

\* C8 witness: the run was aborted only because the seeds file was there
\* already, without --overwrite.
C8_Witness ==
    /\ pc = "exited" /\ exit = "usage_error"
    /\ args.in_supported /\ args.out_supported
    /\ fs["in_fibertubes"] = "old"
    /\ ~args.overwrite /\ ~args.do_not_save_seeds
    /\ fs["out_seeds"] = "old"
    /\ fs["out_tractogram"] = "absent"
    /\ fs["out_config"] = "absent"

PassedValidation == pc \in {"config", "exited"} /\ exit # "usage_error"

\* C9 as stated: a run that passed validation has written the output
\* tractogram, and the seeds file exactly when --do_not_save_seeds is not
\* set.
C9_SeedsFileWritten ==
    (pc = "exited" /\ exit # "usage_error") =>
        /\ "out_tractogram" \in WrittenFiles
        /\ ~args.do_not_save_seeds => "out_seeds" \in WrittenFiles
        /\ args.do_not_save_seeds =>
               /\ "out_seeds" \notin WrittenFiles
               /\ "seeds" \notin DOMAIN out_file[1].data_per_streamline

\* C9 amended: a run that passed validation has written the output
\* tractogram and never the seeds file; without --do_not_save_seeds the
\* tractogram holds the tracker's seed records as data_per_streamline
\* 'seeds', one per streamline, and with it the tractogram holds no seeds.
C9_SeedsInTractogram ==
    PassedValidation =>
        /\ "out_tractogram" \in WrittenFiles
        /\ "out_seeds" \notin WrittenFiles
        /\ out_file # <<>>
        /\ out_file[1].streamlines = streamlines
        /\ ~args.do_not_save_seeds =>
               /\ DOMAIN out_file[1].data_per_streamline = {"seeds"}
               /\ out_file[1].data_per_streamline.seeds = seeds
               /\ Len(seeds) = Len(streamlines)
        /\ args.do_not_save_seeds =>
               "seeds" \notin DOMAIN out_file[1].data_per_streamline

\* C9 witness: a run without --do_not_save_seeds has saved a tractogram with
\* seeds in it and left no seeds file.
C9_Witness ==
    /\ pc = "exited" /\ exit = "ok"
    /\ ~args.do_not_save_seeds
    /\ fs["out_seeds"] = "absent"
    /\ fs["out_tractogram"] = "new"
    /\ Len(out_file[1].data_per_streamline.seeds) >= 1

\* C10: a run that passed validation ends without error after the output
\* tractogram has been saved, with the configuration saved at --out_config
\* when it is given and printed in the console otherwise.
C10_ConfigReported ==
    (pc = "exited" /\ exit # "usage_error") =>
        /\ exit = "ok"
        /\ "out_tractogram" \in WrittenFiles
        /\ args.out_config => "out_config" \in WrittenFiles
        /\ ~args.out_config => console # <<>>

\* The number of seeds a command line asks for.
SeedCount(a) ==
    a.nb_seeds_per_fiber
      * (IF a.nb_fibers # 0 THEN a.nb_fibers ELSE Len(Centerlines))

\* C3: a second full run over the same fibertubes with the same command line
\* (rng_seed, step_size, blur_radius, skip, number of processes, ...) saves
\* the same tractogram as the first: the same streamlines, the same points,
\* in the same order.
C3_SameRunSameOutput ==
    (run = 2 /\ out_file # <<>> /\ args = prev[1].args) =>
        /\ out_file[1] = prev[1].out_file
        /\ fate = prev[1].fate

\* C3 witness: a second run with workers, same command line, has saved
\* several streamlines, one of them of three points or more.
C3_Witness ==
    /\ run = 2 /\ pc = "exited"
    /\ args = prev[1].args
    /\ args.nbr_processes >= 2
    /\ Len(out_file[1].streamlines) >= 2
    /\ \E k \in 1..Len(out_file[1].streamlines) :
           Len(out_file[1].streamlines[k]) >= 3

\* C4: two runs that differ only in the number of processes produce, seed
\* index by seed index, the same lines.
C4_WorkerCountInvariance ==
    (/\ run = 2 /\ out_file # <<>>
     /\ args = [prev[1].args EXCEPT !.nbr_processes = args.nbr_processes])
        => fate = prev[1].fate

\* C5: with the same rng_seed, a run with skip = K over M seeds produces for
\* the seeds K .. K+M-1 the lines a run with skip = 0 over K+M seeds
\* produced for them.
C5_SkipConsistency ==
    (/\ run = 2 /\ out_file # <<>>
     /\ prev[1].args.skip = 0
     /\ args = [prev[1].args EXCEPT !.skip = args.skip,
                                    !.nb_fibers = args.nb_fibers]
     /\ SeedCount(args) >= 1
     /\ SeedCount(prev[1].args) = args.skip + SeedCount(args))
        => \A i \in SeedIdxs :
               (args.skip <= i /\ i < args.skip + SeedCount(args))
                   => fate[i] = prev[1].fate[i]

\* C11: a run in which no streamline survives tracking and length filtering
\* still ends normally, and its output tractogram holds zero streamlines and
\* zero seed records.
C11_EmptyRunNotFatal ==
    (pc = "exited" /\ exit # "usage_error" /\ streamlines = <<>>) =>
        /\ exit = "ok"
        /\ fs["out_tractogram"] = "new"
        /\ out_file # <<>>
        /\ out_file[1].streamlines = <<>>
        /\ ~args.do_not_save_seeds =>
               out_file[1].data_per_streamline.seeds = <<>>

\* Whether sequence s starts with sequence p.
IsPrefix(p, s) == Len(p) <= Len(s) /\ \A k \in 1..Len(p) : s[k] = p[k]

\* C12: every seed's propagation starts with a forward phase from the seed;
\* with forward_only no backward phase is ever entered; otherwise the forward
\* phase is followed by a backward phase that restarts at the seed with the
\* initial direction negated, and then the line is finished; the line always
\* begins with the seed point, and the backward points come after the
\* forward points.
C12_ForwardThenBackward ==
    [][\A c \in 1..Len(chunks') :
          LET b == chunks'[c]
          IN  /\ args.forward_only => b.phase # "backward"
              /\ Stepping(b) =>
                    b.line[1] = seed_position([centerlines |-> Centerlines],
                                              args.nb_seeds_per_fiber,
                                              args.rng_seed, b.first + b.s)
              /\ c <= Len(chunks) =>
                    LET a == chunks[c]
                    IN  /\ (a.phase = "next" /\ b.phase # "next") =>
                              (b.phase = "forward" /\ Len(b.line) = 1)
                        /\ (a.phase = "forward" /\ b.phase # "forward") =>
                              IF args.forward_only
                              THEN b.phase = "filter" /\ b.line = a.line
                              ELSE /\ b.phase = "backward"
                                   /\ b.line = a.line
                                   /\ b.pos = a.line[1]
                                   /\ b.dir = Neg(a.dir0)
                        /\ (a.phase = "backward" /\ b.phase # "backward") =>
                              (b.phase = "filter" /\ b.line = a.line)
                        /\ (a.phase = "filter" /\ b.phase # "filter") =>
                              b.phase \in {"next", "done"}
                        /\ (Stepping(a) /\ Stepping(b)) =>
                              IsPrefix(a.line, b.line)
      ]_vars

\* C12 witness: a line was finished after a forward phase that added points
\* and a backward phase that added points after them.
C12_Witness ==
    \E c \in 1..Len(chunks) :
        /\ ~args.forward_only
        /\ chunks[c].phase = "filter"
        /\ chunks[c].nfwd >= 2
        /\ Len(chunks[c].line) > chunks[c].nfwd
        /\ chunks[c].dir0 # NoDir
        /\ chunks[c].line[chunks[c].nfwd + 1]
             = <<chunks[c].line[1][1] - args.step_size * chunks[c].dir0[1],
                 chunks[c].line[1][2] - args.step_size * chunks[c].dir0[2]>>

\* The seeds a command line asks the run to track.
InSeedList(i) ==
    /\ args.skip <= i
    /\ i < args.skip + args.nb_seeds_per_fiber
                         * (IF args.nb_fibers # 0 THEN args.nb_fibers
                            ELSE Len(Centerlines))

\* C13: a terminated phase never steps again, a finished line is never
\* changed and its seed never tracked a second time, and whatever the fate of
\* a line (kept, discarded, ended by an invalid step) its worker goes on to
\* its next seed: tracking returns only when every seed of the list has
\* been tracked, and it never ends the run.
C13_FailureIsLocal ==
    [][/\ \A i \in SeedIdxs :
              /\ consumed'[i] <= 1
              /\ fate[i] # <<>> => (fate'[i] = fate[i]
                                     /\ consumed'[i] = consumed[i])
       /\ \A c \in 1..Len(chunks) :
              c <= Len(chunks') =>
                  LET a == chunks[c]
                      b == chunks'[c]
                  IN  /\ (Stepping(a) /\ a.status = "TERMINATED"
                            /\ b.phase = a.phase) => b = a
                      /\ a.phase = "filter" =>
                            \/ b = a
                            \/ /\ b.s = a.s + 1
                               /\ b.phase = IF a.s + 1 < a.size
                                            THEN "next" ELSE "done"
                               /\ fate'[a.first + a.s] # <<>>
       /\ (pc = "tracking" /\ pc' # "tracking") =>
              /\ pc' = "save" /\ exit' = "running"
              /\ \A i \in SeedIdxs :
                     InSeedList(i) => (consumed[i] = 1 /\ fate[i] # <<>>)
      ]_vars

\* C13 witness: in a single process, the first seed's line was discarded,
\* the next seed was tracked after it, and its line, ended by an invalid
\* step, was kept.
C13_Witness ==
    /\ pc = "save"
    /\ args.nbr_processes = 1
    /\ fate[0] # <<>> /\ ~fate[0][1].kept
    /\ fate[1] # <<>> /\ fate[1][1].kept
    /\ fate[1][1].invalid >= 1
    /\ Len(fate[1][1].line) >= 2

\* C14: whatever directions are sampled, every step of a phase takes one of
\* the line's max_nbr_pts points (the seed has the first, so a phase takes at
\* most max_nbr_pts - 1 steps and a line never exceeds max_nbr_pts points),
\* every line that starts is finished, and the run reaches its end.
C14_Terminates ==
    /\ [](\A c \in 1..Len(chunks) :
              LET hi == args.max_length \div args.step_size
              IN  /\ chunks[c].steps <= (IF hi >= 1 THEN hi - 1 ELSE 0)
                  /\ Len(chunks[c].line) <= (IF hi >= 1 THEN hi ELSE 1))
    /\ \A i \in 0..1 : (consumed[i] = 1) ~> (fate[i] # <<>>)
    /\ <>(pc = "exited" /\ exit = "ok")

\* C14 witness: a phase has used the whole step budget, one of its steps
\* being an invalid one.
C14_Witness ==
    \E c \in 1..Len(chunks) :
        /\ Stepping(chunks[c])
        /\ chunks[c].status = "TERMINATED"
        /\ chunks[c].steps = (args.max_length \div args.step_size) - 1
        /\ chunks[c].invalid >= 1

\* The turning angles of a line whose first nfwd points are the seed and the
\* forward points (nfwd = 0: all of them), the others the backward points:
\* between consecutive forward steps, between consecutive backward steps,
\* and between the first backward step and the reverse of the first forward
\* step, the angle is at most theta.
TurnsWithin(line, nfwd, theta) ==
    LET n == Len(line)
        f == IF nfwd = 0 THEN n ELSE nfwd
        Before(j) == IF j = 1 THEN line[1] ELSE line[f + j - 1]
        Back(j) == SegDir(Before(j), line[f + j])
    IN  /\ \A k \in 2..(f - 1) :
               Angle(SegDir(line[k], line[k + 1]),
                     SegDir(line[k - 1], line[k])) <= theta
        /\ \A j \in 2..(n - f) : Angle(Back(j), Back(j - 1)) <= theta
        /\ (n > f /\ f >= 2) =>
               Angle(Back(1), Neg(SegDir(line[1], line[2]))) <= theta

\* A step of worker c from chunk state a to chunk state b.
Stepped(a, b) ==
    Stepping(a) /\ a.status # "TERMINATED" /\ b.steps = a.steps + 1

\* The candidates at a's position, and whether none of them is in the cone.
NoneInCone(m, a) ==
    LET near == nearest_fiber_segments(m, a.pos)
    IN  /\ a.dir # NoDir
        /\ near # <<>>
        /\ \A k \in 1..Len(near) :
               Angle(CandDir(m, near[k], a.dir), a.dir) > args.theta

KeptRank(i) == Cardinality({j \in KeptIdxs : j <= i})

\* C16: when seeds are saved, once tracking has returned there are exactly
\* as many seed records as output streamlines, which is the number of kept
\* seeds; the k-th record is the position of the k-th kept seed, which is
\* the seed the k-th streamline started from; the seed of a discarded line
\* is not recorded.
C16_SeedsMatchStreamlines ==
    (Tracked /\ ~args.do_not_save_seeds) =>
        /\ Len(seeds) = Len(streamlines)
        /\ Len(seeds) = Cardinality(KeptIdxs)
        /\ \A i \in KeptIdxs :
               /\ KeptRank(i) <= Len(seeds)
               /\ seeds[KeptRank(i)] =
                      seed_position(in_sft[1], args.nb_seeds_per_fiber,
                                    args.rng_seed, i)
               /\ streamlines[KeptRank(i)] = fate[i][1].line
               /\ streamlines[KeptRank(i)][1] = seeds[KeptRank(i)]

\* C16 witness: tracking has returned with seeds saved; the first seed's line
\* was discarded and a later seed's line of several points was kept, so the
\* first record is not the first seed.
C16_Witness ==
    /\ Tracked /\ ~args.do_not_save_seeds
    /\ fate[0] # <<>> /\ ~fate[0][1].kept
    /\ \E i \in KeptIdxs : i > 0 /\ Len(fate[i][1].line) >= 2
    /\ Len(seeds) >= 1
    /\ seeds[1] # seed_position(in_sft[1], args.nb_seeds_per_fiber,
                                args.rng_seed, 0)

\* The seeds that have been tracked to the end.
TrackedIdxs == {i \in SeedIdxs : fate[i] # <<>>}

PwNamed ==
    NameSet(pw.in_bundles)
      \cup (IF pw.single_compare = NoBundle THEN {} ELSE {pw.single_compare})

\* The pairs a run has to compare without an empty bundle in them.
RECURSIVE FullPairs(_, _)
FullPairs(comb, empty) ==
    IF comb = <<>> THEN <<>>
    ELSE (IF Head(comb)[1] \in empty \/ Head(comb)[2] \in empty
          THEN <<>> ELSE << Head(comb) >>)
           \o FullPairs(Tail(comb), empty)

\* C18: a run of scil_bundle_pairwise_comparison that passed validation and
\* was given an empty bundle ends without error: a warning has been logged
\* for every empty bundle it was given, every pair with an empty bundle has
\* the null result and all the others their measures, and out_json holds,
\* per measure, the values of exactly the pairs of non-empty bundles, in
\* order (nothing at all when there is none).
C18_EmptyBundleTolerated ==
    (/\ Pw(cli.script) /\ pw.pc = "exited" /\ pw.exit # "usage_error"
     /\ PwNamed \cap pw.empty # {}) =>
        /\ pw.exit = "ok"
        /\ \A f \in PwNamed \cap pw.empty : f \in pw.warnings
        /\ Len(pw.all_measures) = Len(pw.comb)
        /\ \A k \in 1..Len(pw.all_measures) :
               (pw.all_measures[k] = <<>>) <=>
                   (pw.comb[k][1] \in pw.empty \/ pw.comb[k][2] \in pw.empty)
        /\ pw.written # <<>>
        /\ LET full == FullPairs(pw.comb, pw.empty)
           IN  /\ DOMAIN pw.written[1] =
                      (IF full = <<>> THEN {} ELSE MeasureNames)
               /\ \A m \in DOMAIN pw.written[1] :
                      pw.written[1][m] = full

\* C19: a script called with --help, by its name or by a former name, ends
\* successfully with the parser built and the usage printed, and it has
\* checked no input, processed nothing and written no file: no main() has
\* moved from its first statement after parse_args.
C19_HelpAlwaysWorks ==
    cli.help =>
        /\ cli.stage = "exited" =>
               (cli.exit = "ok" /\ cli.parser /\ cli.usage)
        /\ cli.exit \in {"running", "ok"}
        /\ pc = "check_formats" /\ exit = "running"
        /\ fs = CleanFs /\ in_sft = <<>> /\ out_file = <<>>
        /\ pw.pc = "validate" /\ ~pw.tmp_dir /\ ~pw.pool
        /\ pw.written = <<>> /\ pw.out_json \in {"absent", "old"}
        /\ pm.pc = "assert_io" /\ ~pm.loaded
        /\ pm.saved = <<>> /\ pm.out_tractogram \in {"absent", "old"}

\* Whether a run of scil_tractogram_point_math has something to reject: the
\* input tractogram is empty, the numbers of in names and out names differ,
\* an out name is given twice, a named data_per_point is absent, or the
\* operation is correlation and a named data is single-valued per point or
\* the mode is dpp.
PmInvalid ==
    LET ins  == Flat(pm.in_dpp_name)
        outs == Flat(pm.out_name)
    IN  \/ pm.nb_streamlines = 0
        \/ Len(ins) # Len(outs)
        \/ Len(outs) # Cardinality(NameSet(outs))
        \/ \E n \in NameSet(ins) : n \notin DOMAIN pm.data_per_point
        \/ /\ pm.operation = "correlation"
           /\ \/ pm.dpp_or_dps = "dpp"
              \/ \E n \in NameSet(ins) \cap DOMAIN pm.data_per_point :
                     Len(pm.data_per_point[n]) = 1

\* C20: a run of scil_tractogram_point_math that has something to reject
\* never computes an operation and never writes the output tractogram.
C20_ValidateBeforeOperate ==
    (Pm(cli.script) /\ PmInvalid) =>
        /\ pm.ops = <<>>
        /\ pm.saved = <<>>
        /\ pm.out_tractogram \in {"absent", "old"}

\* The bundles of the planned pairs that have streamlines, hence cache files
\* to compute.
PwCached ==
    UNION { {pw.comb[k][1], pw.comb[k][2]} : k \in 1..Len(pw.comb) }
      \ pw.empty

\* C21: in a run of scil_bundle_pairwise_comparison with more than one
\* process, when the comparison phase starts (the pairs are planned and
\* handed to the workers) the cache files of every bundle with streamlines
\* are there, complete, so that no worker of the comparison has one to
\* write; this in the all-pairs mode and in the --single_compare mode.
C21_CacheCompleteBeforeCompare ==
    (/\ Pw(cli.script) /\ pw.nbr_processes > 1
     /\ pw.pc \in {"compute", "collect", "write"}) =>
        /\ pw.tmp_dir
        /\ \A f \in PwCached : f \in pw.tmp

\* C22: the run through the process pool ends as the sequential run on the
\* same bundles did, and has written the same out_json: the same measures,
\* each with the same values in the same pair order.
C22_PoolAsSequential ==
    (Pw(cli.script) /\ run = 2 /\ pw.pc = "exited") =>
        /\ pw.exit = prev[1].pw.exit
        /\ pw.comb = prev[1].pw.comb
        /\ pw.all_measures = prev[1].pw.all_measures
        /\ pw.written = prev[1].pw.written

\* C23: the temporary directory of scil_bundle_pairwise_comparison does not
\* exist before main() creates it, and once created it stays until the run
\* ends; when a run that got past validation ends, normally or through an
\* error, the directory is left exactly when --keep_tmp is set, then with
\* the cache files it held, and otherwise it is gone with them.
C23_TmpDirLifecycle ==
    [][Pw(cli.script) =>
          /\ pw.pc \in {"validate", "setup"} => (~pw.tmp_dir /\ pw.tmp = {})
          /\ (pw.tmp_dir /\ pw'.pc # "exited") => pw'.tmp_dir
          /\ (/\ pw.pc # "exited" /\ pw'.pc = "exited"
              /\ pw'.exit # "usage_error") =>
                 /\ pw.tmp_dir
                 /\ pw'.tmp_dir <=> pw.keep_tmp
                 /\ pw'.tmp = (IF pw.keep_tmp THEN pw.tmp ELSE {})
      ]_vars
====
